---- MODULE Spec2Model ----
(***************************************************************************)
(* The note-processing pipeline of Network-Journal                         *)
(* (backend/ai_service/note_processor.py) over the graph store             *)
(* (backend/graph_service/*.py): main-person setup, entity resolution,     *)
(* relationship validation with ensure-exists, and the commit of links.    *)
(*                                                                         *)
(* Strings that the code compares, lower-cases or searches by substring    *)
(* (entity and person names) are sequences of one-letter strings, so that  *)
(* equality, lower() and CONTAINS are computed and not assumed.            *)
(***************************************************************************)
EXTENDS Naturals, Sequences, FiniteSets

VARIABLES
    nodes,              \* graph store: the nodes (id, label, name, email)
    edges,              \* graph store: the edges (type, from, to, attributes)
    next_id,            \* the next identifier uuid4() hands out
    main_person_name,   \* AdvancedNoteProcessorService.main_person_name
    main_person_id,     \* AdvancedNoteProcessorService.main_person_id
    pc,                 \* where process_note_advanced stands
    entities,           \* analysis.entities
    relationships,      \* analysis.relationships
    resolved,           \* resolved_entities: name -> resolution
    keys,               \* insertion order of resolved_entities
    cur,                \* index of the running for loop
    pending,            \* candidates handed to the disambiguation chain
    validated,          \* validated_relationships
    created_entities,   \* the summary _create_graph_entities builds
    calls,              \* store create/link calls of this run, in order
    error,              \* the exception process_note_advanced raised, if any
    result,             \* what the last finished call returned to its caller
    runs,               \* process_note_advanced calls started so far
    configured,         \* extraction_chain is not None (OPENAI_API_KEY is set)
    looked_up,          \* a store lookup was issued in this run
    call_main_person,   \* the main person (name, id) this call set up (line 236)
    suspended           \* the coroutine of the other request, at its await

vars == <<nodes, edges, next_id, main_person_name, main_person_id, pc,
          entities, relationships, resolved, keys, cur, pending, validated,
          created_entities, calls, error, result, runs, configured, looked_up,
          call_main_person, suspended>>

(***************************************************************************)
(* Bounds of the model.                                                    *)
(***************************************************************************)
MaxEntities == 2
MaxRels == 2

(***************************************************************************)
(* Strings.                                                                *)
(***************************************************************************)
Letters == {"A", "C", "G", "S", "a", "c", "g", "k", "l", "s"}

\* str.lower() on one letter
LowerChar(c) ==
    CASE c = "A" -> "a"
      [] c = "C" -> "c"
      [] c = "G" -> "g"
      [] c = "S" -> "s"
      [] OTHER -> c

\* str.lower()
Lower(s) == [i \in DOMAIN s |-> LowerChar(s[i])]

\* Cypher: s CONTAINS q (case-sensitive substring)
Contains(s, q) ==
    \E i \in 0..Len(s) : i + Len(q) <= Len(s) /\ SubSeq(s, i + 1, i + Len(q)) = q

\* Cypher: s STARTS WITH q
StartsWith(s, q) == Len(q) <= Len(s) /\ SubSeq(s, 1, Len(q)) = q

\* code point of a letter, for ORDER BY p.name
Code(c) ==
    CASE c = "A" -> 65
      [] c = "C" -> 67
      [] c = "G" -> 71
      [] c = "S" -> 83
      [] c = "a" -> 97
      [] c = "c" -> 99
      [] c = "g" -> 103
      [] c = "k" -> 107
      [] c = "l" -> 108
      [] c = "s" -> 115

\* Cypher string order: s sorts strictly before t
NameLess(s, t) ==
    \/ \E i \in 1..Len(s) :
          /\ i <= Len(t)
          /\ SubSeq(s, 1, i - 1) = SubSeq(t, 1, i - 1)
          /\ Code(s[i]) < Code(t[i])
    \/ Len(s) < Len(t) /\ SubSeq(t, 1, Len(s)) = s

NameAlice == <<"A", "l">>
NameAliceLower == <<"a", "l">>
NameAl == <<"A">>
NameSarah == <<"S">>
NameSarahK == <<"S", "k">>
NameLee == <<"l">>
EmailSarahLee == <<"S", "l">>
NameGoogle == <<"G">>
NameCar == <<"C">>

(***************************************************************************)
(* The graph store.                                                        *)
(***************************************************************************)
NoId == 0
NoEmail == <<>>
BogusId == 9
FirstFreshId == 10

Labels == {"Person", "Company", "Topic", "Event", "Location"}

Node(id, label, name, email) ==
    [id |-> id, label |-> label, name |-> name, email |-> email]

SeedAlice == Node(1, "Person", NameAlice, NoEmail)
SeedSarahK == Node(2, "Person", NameSarahK, NoEmail)
SeedLee == Node(3, "Person", NameLee, EmailSarahLee)
SeedSarah == Node(4, "Person", NameSarah, NoEmail)
SeedGoogle == Node(5, "Company", NameGoogle, NoEmail)

SeedStores ==
    { {},
      {SeedAlice},
      {SeedAlice, SeedSarahK},
      {SeedAlice, SeedSarahK, SeedLee},
      {SeedAlice, SeedSarah, SeedGoogle} }

\* MATCH (n:label {name: $name}) RETURN n
get_by_name(label, name) == {n \in nodes : n.label = label /\ n.name = name}

get_person_by_name(name) == get_by_name("Person", name)
get_company_by_name(name) == get_by_name("Company", name)
get_topic_by_name(name) == get_by_name("Topic", name)
get_event_by_name(name) == get_by_name("Event", name)
get_location_by_city(name) == get_by_name("Location", name)

\* result.single(): the record, None when there is none, the first of several
\* (a set of ids the caller picks from; {NoId} stands for None)
single(matches) == IF matches = {} THEN {NoId} ELSE {n.id : n \in matches}

\* WHERE p.name CONTAINS $q OR p.email CONTAINS $q
search_people(query) ==
    {p \in nodes : /\ p.label = "Person"
                   /\ \/ Contains(p.name, query)
                      \/ p.email # NoEmail /\ Contains(p.email, query)}

\* ORDER BY CASE WHEN p.name = $q THEN 1 WHEN p.name STARTS WITH $q THEN 2 ELSE 3 END
SearchRank(p, query) ==
    IF p.name = query THEN 1 ELSE IF StartsWith(p.name, query) THEN 2 ELSE 3

\* ... , p.name : p sorts strictly before q in the result of search_people
SearchBefore(p, q, query) ==
    \/ SearchRank(p, query) < SearchRank(q, query)
    \/ SearchRank(p, query) = SearchRank(q, query) /\ NameLess(p.name, q.name)

\* similar_people[0]: the people no other hit sorts before
search_first(query) ==
    {p \in search_people(query) :
        \A q \in search_people(query) : ~SearchBefore(q, p, query)}

\* CREATE (n:label {id: $id, name: $name, ...})
created_node(label, name) == Node(next_id, label, name, NoEmail)

(***************************************************************************)
(* Entity types and resolutions.                                           *)
(***************************************************************************)
EntityTypes == {"person", "company", "topic", "event", "location"}

LabelOf(entity_type) ==
    CASE entity_type = "person" -> "Person"
      [] entity_type = "company" -> "Company"
      [] entity_type = "topic" -> "Topic"
      [] entity_type = "event" -> "Event"
      [] entity_type = "location" -> "Location"
      [] OTHER -> "None"

EntityMention(name, entity_type) == [name |-> name, entity_type |-> entity_type]

\* confidence in tenths; 0 where the dict has no "confidence" key
Resolution(action, entity, existing_id, confidence) ==
    [action |-> action, entity |-> entity, existing_id |-> existing_id,
     confidence |-> confidence]

NoResolution == Resolution("none", EntityMention(<<>>, "none"), NoId, 0)

(***************************************************************************)
(* Inputs: what the extraction chain and the disambiguation chain answer.  *)
(***************************************************************************)
NoStrength == 0

\* RelationshipMention.properties, a dict: its (key, value) items
NoProperties == {}

RelationshipMention(from_entity, to_entity, relationship_type, strength) ==
    [from_entity |-> from_entity, to_entity |-> to_entity,
     relationship_type |-> relationship_type, strength |-> strength,
     properties |-> NoProperties]

\* The analyses the extraction chain may return: the mentions of a note about
\* work, about people, about interests.
WorkNote ==
    [entities |-> {EntityMention(NameSarah, "person"),
                   EntityMention(NameGoogle, "company"),
                   EntityMention(NameCar, "vehicle")},
     relationships |-> {RelationshipMention(NameSarah, NameGoogle, "WORKS_AT", NoStrength),
                        RelationshipMention(NameAlice, NameSarah, "KNOWS", NoStrength),
                        RelationshipMention(NameSarah, NameCar, "OWNS", NoStrength)}]

PeopleNote ==
    [entities |-> {EntityMention(NameSarah, "person"),
                   EntityMention(NameAliceLower, "person"),
                   EntityMention(NameAlice, "company")},
     relationships |-> {[RelationshipMention(NameAlice, NameSarah, "KNOWS", 4)
                           EXCEPT !.properties = {<<"type", "friend">>}],
                        RelationshipMention(NameAliceLower, NameSarah, "KNOWS", NoStrength),
                        RelationshipMention(NameAlice, NameSarah, "MENTORS", NoStrength)}]

InterestNote ==
    [entities |-> {EntityMention(NameSarah, "person"),
                   EntityMention(NameGoogle, "topic"),
                   EntityMention(NameGoogle, "event"),
                   EntityMention(NameGoogle, "location")},
     relationships |-> {RelationshipMention(NameSarah, NameGoogle, "INTERESTED_IN", NoStrength),
                        RelationshipMention(NameAlice, NameGoogle, "ATTENDED", NoStrength)}]

Notes == {WorkNote, PeopleNote, InterestNote}

SeqsUpTo(S, n) == UNION {[1..m -> S] : m \in 0..n}

\* set_main_person(person_name, person_id) as the callers invoke it:
\* the name alone, the name with the id of the stored person, a shortened name
MainPersons == {<<NameAlice, NoId>>, <<NameAlice, SeedAlice.id>>, <<NameAl, NoId>>}

\* DisambiguationResult.suggested_action / .confidence as the chain answers
DisambiguationActions == {"create_new", "use_existing", "ask_user"}
DisambiguationConfidence == 7

(***************************************************************************)
(* _create_entity_and_update_resolution and _ensure_entity_exists.         *)
(* Each yields the set of outcomes the call can have: the id it returns,   *)
(* the resolution map, the store and the calls it made.                    *)
(***************************************************************************)
Outcome(id, res, ns, nid, cs) ==
    [id |-> id, resolved |-> res, nodes |-> ns, next_id |-> nid, calls |-> cs,
     raised |-> FALSE]

\* the lookup inside _ensure_entity_exists raised: nothing is returned
RaisedOutcome(res, ns, nid) ==
    [id |-> NoId, resolved |-> res, nodes |-> ns, next_id |-> nid, calls |-> <<>>,
     raised |-> TRUE]

\* _ensure_entity_exists asks the store for the entity by name (lines 560-570)
verifies(r) ==
    /\ r.action = "use_existing"
    /\ r.existing_id # NoId
    /\ r.entity.entity_type \in EntityTypes

Call(op, label, name, ok, stage, rel) ==
    [op |-> op, label |-> label, name |-> name, ok |-> ok, stage |-> stage, rel |-> rel]

\* create_entity_and_update_resolution without the else branch of lines
\* 632-634: an entity of any type is handed to the store
create_entity_of_any_type(res, key, ns, nid, stage, rel) ==
    LET entity == res[key].entity
        label == LabelOf(entity.entity_type)
    IN  { Outcome(NoId, res, ns, nid,
                  <<Call("create", label, entity.name, FALSE, stage, rel)>>),
          Outcome(nid,
                  [res EXCEPT ![key].existing_id = nid, ![key].action = "created"],
                  ns \cup {Node(nid, label, entity.name, NoEmail)},
                  nid + 1,
                  <<Call("create", label, entity.name, TRUE, stage, rel)>>) }

\* create_entity_and_update_resolution without lines 637-638: the entity is
\* created and its id returned, the resolution is left as it was
create_entity_without_update(res, key, ns, nid, stage, rel) ==
    LET entity == res[key].entity
        label == LabelOf(entity.entity_type)
    IN  IF entity.entity_type \notin EntityTypes
        THEN {Outcome(NoId, res, ns, nid, <<>>)}
        ELSE { Outcome(NoId, res, ns, nid,
                       <<Call("create", label, entity.name, FALSE, stage, rel)>>),
               Outcome(nid, res,
                       ns \cup {Node(nid, label, entity.name, NoEmail)},
                       nid + 1,
                       <<Call("create", label, entity.name, TRUE, stage, rel)>>) }

\* create_entity_and_update_resolution without line 638: the resolution
\* takes the new id and keeps its action
create_entity_keeping_action(res, key, ns, nid, stage, rel) ==
    LET entity == res[key].entity
        label == LabelOf(entity.entity_type)
    IN  IF entity.entity_type \notin EntityTypes
        THEN {Outcome(NoId, res, ns, nid, <<>>)}
        ELSE { Outcome(NoId, res, ns, nid,
                       <<Call("create", label, entity.name, FALSE, stage, rel)>>),
               Outcome(nid,
                       [res EXCEPT ![key].existing_id = nid],
                       ns \cup {Node(nid, label, entity.name, NoEmail)},
                       nid + 1,
                       <<Call("create", label, entity.name, TRUE, stage, rel)>>) }

\* res: the resolution map, key: the name whose resolution is handled,
\* ns/nid: the store, stage/rel: where the call comes from
create_entity_and_update_resolution(res, key, ns, nid, stage, rel) ==
    LET entity == res[key].entity
        label == LabelOf(entity.entity_type)
    IN  IF entity.entity_type \notin EntityTypes
        THEN {Outcome(NoId, res, ns, nid, <<>>)}
        ELSE { \* the store create raised: caught, None
               Outcome(NoId, res, ns, nid,
                       <<Call("create", label, entity.name, FALSE, stage, rel)>>),
               \* created: the resolution takes the new id
               Outcome(nid,
                       [res EXCEPT ![key].existing_id = nid, ![key].action = "created"],
                       ns \cup {Node(nid, label, entity.name, NoEmail)},
                       nid + 1,
                       <<Call("create", label, entity.name, TRUE, stage, rel)>>) }

\* _ensure_entity_exists without the verification of lines 560-579: the id
\* of a use_existing resolution is returned as it stands
ensure_entity_unverified(res, key, ns, nid, stage, rel) ==
    LET r == res[key]
    IN  IF r.action = "use_existing"
        THEN IF r.existing_id # NoId
             THEN {Outcome(r.existing_id, res, ns, nid, <<>>)}
             ELSE create_entity_and_update_resolution(res, key, ns, nid, stage, rel)
        ELSE IF r.action = "create_new"
        THEN IF r.existing_id # NoId
             THEN {Outcome(r.existing_id, res, ns, nid, <<>>)}
             ELSE create_entity_and_update_resolution(res, key, ns, nid, stage, rel)
        ELSE {Outcome(NoId, res, ns, nid, <<>>)}

ensure_entity_exists(res, key, ns, nid, stage, rel) ==
    LET r == res[key]
        entity == r.entity
        matches == {n \in ns : n.label = LabelOf(entity.entity_type) /\ n.name = entity.name}
    IN  IF r.action = "use_existing"
        THEN IF r.existing_id # NoId
             THEN (IF matches # {}
                   THEN {Outcome(n.id, res, ns, nid, <<>>) : n \in matches}
                   ELSE create_entity_and_update_resolution(res, key, ns, nid, stage, rel))
                  \cup (IF verifies(r) THEN {RaisedOutcome(res, ns, nid)} ELSE {})
             ELSE create_entity_and_update_resolution(res, key, ns, nid, stage, rel)
        ELSE IF r.action = "create_new"
        THEN IF r.existing_id # NoId
             THEN {Outcome(r.existing_id, res, ns, nid, <<>>)}
             ELSE create_entity_and_update_resolution(res, key, ns, nid, stage, rel)
        ELSE {Outcome(NoId, res, ns, nid, <<>>)}

(***************************************************************************)
(* The initial state: a store with some seed population, the processor as  *)
(* constructed (main person "Alice", no id).                               *)
(***************************************************************************)
NoSummary ==
    [people |-> <<>>, companies |-> <<>>, topics |-> <<>>, events |-> <<>>,
     locations |-> <<>>, relationships |-> <<>>]

\* lines 271-277: the dict process_note_advanced returns
Result(res, val, created, main_id) ==
    [resolved_entities |-> res, validated_relationships |-> val,
     created_entities |-> created, main_person_id |-> main_id]

NoResult == Result(<<>>, <<>>, NoSummary, NoId)

\* no call has set up a main person
NoMainPerson == <<<<>>, NoId>>

\* a coroutine of process_note_advanced that has not started
IdleCoroutine ==
    [pc |-> "idle", entities |-> <<>>, relationships |-> <<>>, resolved |-> <<>>,
     keys |-> <<>>, cur |-> 0, pending |-> {}, validated |-> <<>>,
     created_entities |-> NoSummary, calls |-> <<>>, error |-> "none",
     looked_up |-> FALSE, call_main_person |-> NoMainPerson]

Init ==
    /\ nodes \in SeedStores
    /\ edges = {}
    /\ next_id = FirstFreshId
    /\ main_person_name = NameAlice
    /\ main_person_id = NoId
    /\ pc = "idle"
    /\ entities = <<>>
    /\ relationships = <<>>
    /\ resolved = <<>>
    /\ keys = <<>>
    /\ cur = 0
    /\ pending = {}
    /\ validated = <<>>
    /\ created_entities = NoSummary
    /\ calls = <<>>
    /\ error = "none"
    /\ result = NoResult
    /\ runs = 0
    /\ configured \in BOOLEAN
    /\ looked_up = FALSE
    /\ call_main_person = NoMainPerson
    /\ suspended = IdleCoroutine

locals == <<entities, relationships, resolved, keys, cur, pending, validated,
            created_entities>>
store == <<nodes, edges, next_id>>

\* def set_main_person(self, person_name, person_id=None)
set_main_person ==
    /\ pc = "idle"
    /\ UNCHANGED <<configured, looked_up, call_main_person, suspended>>
    /\ \E main \in MainPersons :
          /\ main_person_name' = main[1]
          /\ main_person_id' = main[2]
    /\ UNCHANGED <<store, pc, locals, calls, error, result, runs>>

\* process_note_advanced with _ensure_main_person_exists (line 236) ahead of
\* the check of line 232
StartProcessEnsuringFirst(max_runs) ==
    /\ pc = "idle"
    /\ runs < max_runs
    /\ runs' = runs + 1
    /\ UNCHANGED <<edges, locals, result, configured, suspended>>
    /\ pc' = IF configured THEN "extracting" ELSE "raised"
    /\ error' = IF configured THEN "none" ELSE "not_configured"
    /\ looked_up' = (main_person_id = NoId)
    /\ IF main_person_id # NoId
       THEN /\ calls' = <<>>
            /\ UNCHANGED <<nodes, next_id, main_person_name, main_person_id>>
       ELSE \E id \in single(get_person_by_name(main_person_name)) :
              IF id # NoId
              THEN /\ main_person_id' = id
                   /\ calls' = <<>>
                   /\ UNCHANGED <<nodes, next_id, main_person_name>>
              ELSE IF search_people(main_person_name) # {}
              THEN \E p \in search_first(main_person_name) :
                     /\ main_person_id' = p.id
                     /\ main_person_name' = p.name
                     /\ calls' = <<>>
                     /\ UNCHANGED <<nodes, next_id>>
              ELSE /\ nodes' = nodes \cup {created_node("Person", main_person_name)}
                   /\ next_id' = next_id + 1
                   /\ main_person_id' = next_id
                   /\ calls' = <<Call("create", "Person", main_person_name, TRUE,
                                      "main", 0)>>
                   /\ UNCHANGED main_person_name
    /\ call_main_person' = <<main_person_name', main_person_id'>>

\* process_note_advanced with an _ensure_main_person_exists that lacks the
\* test of line 291: the main person is looked up in every call
StartProcessAlwaysEnsuring(max_runs) ==
    /\ pc = "idle"
    /\ runs < max_runs
    /\ runs' = runs + 1
    /\ UNCHANGED <<edges, locals, result, configured, suspended>>
    /\ IF ~configured
       THEN /\ pc' = "raised"
            /\ error' = "not_configured"
            /\ calls' = <<>>
            /\ looked_up' = FALSE
            /\ UNCHANGED <<nodes, next_id, main_person_name, main_person_id>>
       ELSE /\ looked_up' = TRUE
            /\ pc' = "extracting"
            /\ error' = "none"
            /\ \E id \in single(get_person_by_name(main_person_name)) :
                  IF id # NoId
                  THEN /\ main_person_id' = id
                       /\ calls' = <<>>
                       /\ UNCHANGED <<nodes, next_id, main_person_name>>
                  ELSE IF search_people(main_person_name) # {}
                  THEN \E p \in search_first(main_person_name) :
                         /\ main_person_id' = p.id
                         /\ main_person_name' = p.name
                         /\ calls' = <<>>
                         /\ UNCHANGED <<nodes, next_id>>
                  ELSE /\ nodes' = nodes \cup {created_node("Person", main_person_name)}
                       /\ next_id' = next_id + 1
                       /\ main_person_id' = next_id
                       /\ calls' = <<Call("create", "Person", main_person_name, TRUE,
                                          "main", 0)>>
                       /\ UNCHANGED main_person_name
    /\ call_main_person' = <<main_person_name', main_person_id'>>

\* process_note_advanced up to the await of the extraction chain:
\* _ensure_main_person_exists
StartProcess(max_runs) ==
    /\ pc = "idle"
    /\ runs < max_runs
    /\ runs' = runs + 1
    /\ UNCHANGED <<edges, locals, result, configured, suspended>>
    /\ IF ~configured
       THEN \* line 232: raise Exception("AI service is not configured...")
            /\ pc' = "raised"
            /\ error' = "not_configured"
            /\ calls' = <<>>
            /\ looked_up' = FALSE
            /\ UNCHANGED <<nodes, next_id, main_person_name, main_person_id>>
       ELSE IF main_person_id # NoId
       THEN /\ pc' = "extracting"
            /\ error' = "none"
            /\ calls' = <<>>
            /\ looked_up' = FALSE
            /\ UNCHANGED <<nodes, next_id, main_person_name, main_person_id>>
       ELSE /\ looked_up' = TRUE
            /\ \/ \E id \in single(get_person_by_name(main_person_name)) :
                    IF id # NoId
                    THEN /\ main_person_id' = id
                         /\ pc' = "extracting"
                         /\ error' = "none"
                         /\ calls' = <<>>
                         /\ UNCHANGED <<nodes, next_id, main_person_name>>
                    ELSE IF search_people(main_person_name) # {}
                    THEN \E p \in search_first(main_person_name) :
                           /\ main_person_id' = p.id
                           /\ main_person_name' = p.name
                           /\ pc' = "extracting"
                           /\ error' = "none"
                           /\ calls' = <<>>
                           /\ UNCHANGED <<nodes, next_id>>
                    ELSE \/ /\ nodes' = nodes \cup {created_node("Person", main_person_name)}
                            /\ next_id' = next_id + 1
                            /\ main_person_id' = next_id
                            /\ pc' = "extracting"
                            /\ error' = "none"
                            /\ calls' = <<Call("create", "Person", main_person_name, TRUE,
                                               "main", 0)>>
                            /\ UNCHANGED main_person_name
                         \/ \* create_person raised: nothing catches it
                            /\ pc' = "raised"
                            /\ error' = "create_person"
                            /\ calls' = <<Call("create", "Person", main_person_name, FALSE,
                                               "main", 0)>>
                            /\ UNCHANGED <<nodes, next_id, main_person_name, main_person_id>>
               \/ \* get_person_by_name or search_people raised: nothing catches it
                  /\ pc' = "raised"
                  /\ error' = "lookup_main"
                  /\ calls' = <<>>
                  /\ UNCHANGED <<nodes, next_id, main_person_name, main_person_id>>
    /\ call_main_person' = <<main_person_name', main_person_id'>>

(***************************************************************************)
(* Stage 1: the extraction chain answers.                                  *)
(***************************************************************************)
\* resolved[entity.name] = resolution, keeping the dict's insertion order
Put(res, key, r) ==
    [n \in DOMAIN res \cup {key} |-> IF n = key THEN r ELSE res[n]]

PutKey(ks, key) ==
    IF \E i \in DOMAIN ks : ks[i] = key THEN ks ELSE Append(ks, key)

\* where the run goes once the for loop over the entities is over:
\* _validate_relationships starts with its loop over resolved_entities.items()
AfterResolving(ents, i) ==
    IF i <= Len(ents) THEN "resolving" ELSE "prematerializing"

\* lines 239-254 and 326-340: the answer is parsed into a NoteAnalysis, and
\* _resolve_ambiguous_entities seeds the map with the main person
ExtractionReturns(notes) ==
    /\ pc = "extracting"
    /\ UNCHANGED <<configured, looked_up, call_main_person, suspended>>
    /\ \/ \E note \in notes :
            \E ents \in SeqsUpTo(note.entities, MaxEntities) :
              \E rels \in SeqsUpTo(note.relationships, MaxRels) :
                /\ entities' = ents
                /\ relationships' = rels
                /\ resolved' = Put(<<>>, main_person_name,
                                   Resolution("use_existing",
                                              EntityMention(main_person_name, "person"),
                                              main_person_id, 10))
                /\ keys' = <<main_person_name>>
                /\ cur' = 1
                /\ pc' = AfterResolving(ents, 1)
                /\ UNCHANGED error
       \/ \* NoteAnalysis(**raw_analysis) fails: self._create_fallback_analysis
          \* is not defined, the AttributeError leaves process_note_advanced
          /\ pc' = "raised"
          /\ error' = "_create_fallback_analysis"
          /\ UNCHANGED <<entities, relationships, resolved, keys, cur>>
    /\ UNCHANGED <<store, main_person_name, main_person_id, pending, validated,
                   created_entities, calls, result, runs>>

(***************************************************************************)
(* Stage 2: _resolve_ambiguous_entities, one entity per step.              *)
(***************************************************************************)
\* the exact-match-or-create resolvers of company, topic, event, location
resolve_by_exact_match(entity) ==
    { IF id # NoId
      THEN Resolution("use_existing", entity, id, 10)
      ELSE Resolution("create_new", entity, NoId, 9)
      : id \in single(get_by_name(LabelOf(entity.entity_type), entity.name)) }

\* _resolve_person_entity without the exact match of lines 373-380: a
\* person who is not the main person goes straight to the search
resolve_person_by_search(entity) ==
    IF Lower(entity.name) = Lower(main_person_name)
    THEN {Resolution("use_existing", entity, main_person_id, 10)}
    ELSE IF search_people(entity.name) = {}
    THEN {Resolution("create_new", entity, NoId, 9)}
    ELSE IF Cardinality(search_people(entity.name)) = 1
    THEN {Resolution("use_existing", entity, p.id, 8) : p \in search_people(entity.name)}
    ELSE {}

\* _resolve_person_entity without the single-candidate shortcut of lines
\* 394-400: any search hit is handed to the disambiguation chain
resolve_person_without_shortcut(entity) ==
    IF Lower(entity.name) = Lower(main_person_name)
    THEN {Resolution("use_existing", entity, main_person_id, 10)}
    ELSE IF get_person_by_name(entity.name) # {}
    THEN {Resolution("use_existing", entity, p.id, 10) :
              p \in get_person_by_name(entity.name)}
    ELSE IF search_people(entity.name) = {}
    THEN {Resolution("create_new", entity, NoId, 9)}
    ELSE {}

\* _resolve_person_entity up to the disambiguation call: the resolutions it
\* may return; none when it goes on to the disambiguation chain
resolve_person_entity(entity) ==
    IF Lower(entity.name) = Lower(main_person_name)
    THEN {Resolution("use_existing", entity, main_person_id, 10)}
    ELSE IF get_person_by_name(entity.name) # {}
    THEN {Resolution("use_existing", entity, p.id, 10) :
              p \in get_person_by_name(entity.name)}
    ELSE IF search_people(entity.name) = {}
    THEN {Resolution("create_new", entity, NoId, 9)}
    ELSE IF Cardinality(search_people(entity.name)) = 1
    THEN {Resolution("use_existing", entity, p.id, 8) : p \in search_people(entity.name)}
    ELSE {}

resolve_entity(entity) ==
    IF entity.entity_type = "person" THEN resolve_person_entity(entity)
    ELSE IF entity.entity_type \in EntityTypes THEN resolve_by_exact_match(entity)
    ELSE {Resolution("create_new", entity, NoId, 0)}

\* the resolver of the entity asks the store (get_*_by_name, search_people)
looks_up(entity) ==
    /\ entity.entity_type \in EntityTypes
    /\ ~(entity.entity_type = "person" /\ Lower(entity.name) = Lower(main_person_name))

\* a resolver that catches the error of its lookup and goes on as if nothing
\* had been found
ResolveEntityNotFoundOnError ==
    /\ pc = "resolving"
    /\ LET entity == entities[cur]
       IN  /\ looked_up' = (looked_up \/ looks_up(entity))
           /\ \/ /\ UNCHANGED error
                 /\ IF resolve_entity(entity) # {}
                    THEN \E r \in resolve_entity(entity) :
                           /\ resolved' = Put(resolved, entity.name, r)
                           /\ keys' = PutKey(keys, entity.name)
                           /\ cur' = IF cur < Len(entities) THEN cur + 1 ELSE 1
                           /\ pc' = AfterResolving(entities, cur + 1)
                           /\ UNCHANGED pending
                    ELSE /\ pending' = search_people(entity.name)
                         /\ pc' = "disambiguating"
                         /\ UNCHANGED <<resolved, keys, cur>>
              \/ /\ looks_up(entity)
                 /\ error' = "lookup_resolve"
                 /\ resolved' = Put(resolved, entity.name,
                                    Resolution("create_new", entity, NoId, 9))
                 /\ keys' = PutKey(keys, entity.name)
                 /\ cur' = IF cur < Len(entities) THEN cur + 1 ELSE 1
                 /\ pc' = AfterResolving(entities, cur + 1)
                 /\ UNCHANGED pending
    /\ UNCHANGED <<store, main_person_name, main_person_id, entities, relationships,
                   validated, created_entities, calls, result, runs, configured,
                   call_main_person, suspended>>

ResolveEntity ==
    /\ pc = "resolving"
    /\ LET entity == entities[cur]
       IN  /\ looked_up' = (looked_up \/ looks_up(entity))
           /\ \/ /\ UNCHANGED error
                 /\ IF resolve_entity(entity) # {}
                    THEN \E r \in resolve_entity(entity) :
                           /\ resolved' = Put(resolved, entity.name, r)
                           /\ keys' = PutKey(keys, entity.name)
                           /\ cur' = IF cur < Len(entities) THEN cur + 1 ELSE 1
                           /\ pc' = AfterResolving(entities, cur + 1)
                           /\ UNCHANGED pending
                    ELSE \* several candidates: await self.disambiguation_chain.ainvoke
                         /\ pending' = search_people(entity.name)
                         /\ pc' = "disambiguating"
                         /\ UNCHANGED <<resolved, keys, cur>>
              \/ \* the by-name lookup or the search raised: no resolver catches it
                 /\ looks_up(entity)
                 /\ pc' = "raised"
                 /\ error' = "lookup_resolve"
                 /\ UNCHANGED <<resolved, keys, cur, pending>>
    /\ UNCHANGED <<store, main_person_name, main_person_id, entities, relationships,
                   validated, created_entities, calls, result, runs, configured,
                   call_main_person, suspended>>

\* lines 421-439: the disambiguation chain answers
DisambiguationReturns ==
    /\ pc = "disambiguating"
    /\ UNCHANGED <<configured, looked_up, call_main_person, suspended>>
    /\ LET entity == entities[cur]
       IN  \/ \E action \in DisambiguationActions :
                \E id \in {NoId, BogusId} \cup {p.id : p \in pending} :
                  /\ resolved' = Put(resolved, entity.name,
                                     Resolution(action, entity, id, DisambiguationConfidence))
                  /\ keys' = PutKey(keys, entity.name)
                  /\ cur' = IF cur < Len(entities) THEN cur + 1 ELSE 1
                  /\ pc' = AfterResolving(entities, cur + 1)
                  /\ UNCHANGED error
           \/ \* DisambiguationResult(**raw_disambiguation) fails:
              \* self._create_fallback_disambiguation is not defined
              /\ pc' = "raised"
              /\ error' = "_create_fallback_disambiguation"
              /\ UNCHANGED <<resolved, keys, cur>>
    /\ pending' = {}
    /\ UNCHANGED <<store, main_person_name, main_person_id, entities, relationships,
                   validated, created_entities, calls, result, runs>>

(***************************************************************************)
(* Stage 3: _validate_relationships.                                       *)
(***************************************************************************)
AfterPreMaterializing(i) ==
    IF i <= Len(keys) THEN "prematerializing"
    ELSE IF relationships # <<>> THEN "validating" ELSE "committing"

\* lines 517-520, one item of resolved_entities per step
PreMaterialize ==
    /\ pc = "prematerializing"
    /\ UNCHANGED <<configured, looked_up, call_main_person, suspended>>
    /\ LET key == keys[cur]
       IN  IF resolved[key].action = "create_new" /\ resolved[key].existing_id = NoId
           THEN \E o \in ensure_entity_exists(resolved, key, nodes, next_id,
                                              "prematerializing", 0) :
                  /\ resolved' = o.resolved
                  /\ nodes' = o.nodes
                  /\ next_id' = o.next_id
                  /\ calls' = calls \o o.calls
           ELSE UNCHANGED <<resolved, nodes, next_id, calls>>
    /\ cur' = IF cur < Len(keys) THEN cur + 1 ELSE 1
    /\ pc' = AfterPreMaterializing(cur + 1)
    /\ UNCHANGED <<edges, main_person_name, main_person_id, entities, relationships,
                   keys, pending, validated, created_entities, error, result, runs>>

ValidatedRelationship(rel, from_id, to_id) ==
    [from_entity |-> rel.from_entity, to_entity |-> rel.to_entity,
     from_id |-> from_id, to_id |-> to_id,
     relationship_type |-> rel.relationship_type, strength |-> rel.strength,
     properties |-> rel.properties]

\* _validate_relationships without the check of lines 535-537: the
\* relationship is kept whatever the two ensure_exists calls returned
ValidateRelationshipUnchecked ==
    /\ pc = "validating"
    /\ LET rel == relationships[cur]
           goes_on == /\ cur' = IF cur < Len(relationships) THEN cur + 1 ELSE 1
                      /\ pc' = IF cur < Len(relationships) THEN "validating"
                                ELSE "committing"
                      /\ UNCHANGED error
           raises == /\ pc' = "raised"
                     /\ error' = "lookup_verify"
                     /\ UNCHANGED <<cur, validated>>
       IN  IF rel.from_entity \notin DOMAIN resolved \/ rel.to_entity \notin DOMAIN resolved
           THEN /\ goes_on
                /\ UNCHANGED <<resolved, nodes, next_id, calls, validated, looked_up>>
           ELSE /\ looked_up' = (looked_up \/ verifies(resolved[rel.from_entity])
                                          \/ verifies(resolved[rel.to_entity]))
                /\ \E o1 \in ensure_entity_exists(resolved, rel.from_entity, nodes, next_id,
                                                  "validating", cur) :
                     IF o1.raised
                     THEN /\ raises
                          /\ UNCHANGED <<resolved, nodes, next_id, calls>>
                     ELSE \E o2 \in ensure_entity_exists(o1.resolved, rel.to_entity,
                                                         o1.nodes, o1.next_id,
                                                         "validating", cur) :
                            /\ resolved' = o2.resolved
                            /\ nodes' = o2.nodes
                            /\ next_id' = o2.next_id
                            /\ calls' = calls \o o1.calls \o o2.calls
                            /\ IF o2.raised
                               THEN raises
                               ELSE /\ goes_on
                                    /\ validated' = Append(validated,
                                                           ValidatedRelationship(rel, o1.id, o2.id))
    /\ UNCHANGED <<edges, main_person_name, main_person_id, entities, relationships,
                   keys, pending, created_entities, result, runs, configured,
                   call_main_person, suspended>>

\* _validate_relationships leaving its loop (break) where line 529 continues
ValidateRelationshipBreaking ==
    /\ pc = "validating"
    /\ LET rel == relationships[cur]
           goes_on == /\ cur' = IF cur < Len(relationships) THEN cur + 1 ELSE 1
                      /\ pc' = IF cur < Len(relationships) THEN "validating"
                                ELSE "committing"
                      /\ UNCHANGED error
           raises == /\ pc' = "raised"
                     /\ error' = "lookup_verify"
                     /\ UNCHANGED <<cur, validated>>
       IN  IF rel.from_entity \notin DOMAIN resolved \/ rel.to_entity \notin DOMAIN resolved
           THEN /\ cur' = 1
                /\ pc' = "committing"
                /\ UNCHANGED <<resolved, nodes, next_id, calls, validated, looked_up,
                               error>>
           ELSE /\ looked_up' = (looked_up \/ verifies(resolved[rel.from_entity])
                                          \/ verifies(resolved[rel.to_entity]))
                /\ \E o1 \in ensure_entity_exists(resolved, rel.from_entity, nodes, next_id,
                                                  "validating", cur) :
                     IF o1.raised
                     THEN /\ raises
                          /\ UNCHANGED <<resolved, nodes, next_id, calls>>
                     ELSE \E o2 \in ensure_entity_exists(o1.resolved, rel.to_entity,
                                                         o1.nodes, o1.next_id,
                                                         "validating", cur) :
                            /\ resolved' = o2.resolved
                            /\ nodes' = o2.nodes
                            /\ next_id' = o2.next_id
                            /\ calls' = calls \o o1.calls \o o2.calls
                            /\ IF o2.raised
                               THEN raises
                               ELSE /\ goes_on
                                    /\ validated' = IF o1.id = NoId \/ o2.id = NoId
                                                    THEN validated
                                                    ELSE Append(validated,
                                                           ValidatedRelationship(rel, o1.id, o2.id))
    /\ UNCHANGED <<edges, main_person_name, main_person_id, entities, relationships,
                   keys, pending, created_entities, result, runs, configured,
                   call_main_person, suspended>>

\* lines 522-548, one relationship mention per step
ValidateRelationship ==
    /\ pc = "validating"
    /\ LET rel == relationships[cur]
           goes_on == /\ cur' = IF cur < Len(relationships) THEN cur + 1 ELSE 1
                      /\ pc' = IF cur < Len(relationships) THEN "validating"
                                ELSE "committing"
                      /\ UNCHANGED error
           raises == /\ pc' = "raised"
                     /\ error' = "lookup_verify"
                     /\ UNCHANGED <<cur, validated>>
       IN  IF rel.from_entity \notin DOMAIN resolved \/ rel.to_entity \notin DOMAIN resolved
           THEN /\ goes_on
                /\ UNCHANGED <<resolved, nodes, next_id, calls, validated, looked_up>>
           ELSE /\ looked_up' = (looked_up \/ verifies(resolved[rel.from_entity])
                                          \/ verifies(resolved[rel.to_entity]))
                /\ \E o1 \in ensure_entity_exists(resolved, rel.from_entity, nodes, next_id,
                                                  "validating", cur) :
                     IF o1.raised
                     THEN /\ raises
                          /\ UNCHANGED <<resolved, nodes, next_id, calls>>
                     ELSE \E o2 \in ensure_entity_exists(o1.resolved, rel.to_entity,
                                                         o1.nodes, o1.next_id,
                                                         "validating", cur) :
                            /\ resolved' = o2.resolved
                            /\ nodes' = o2.nodes
                            /\ next_id' = o2.next_id
                            /\ calls' = calls \o o1.calls \o o2.calls
                            /\ IF o2.raised
                               THEN raises
                               ELSE /\ goes_on
                                    /\ validated' = IF o1.id = NoId \/ o2.id = NoId
                                                    THEN validated
                                                    ELSE Append(validated,
                                                           ValidatedRelationship(rel, o1.id, o2.id))
    /\ UNCHANGED <<edges, main_person_name, main_person_id, entities, relationships,
                   keys, pending, created_entities, result, runs, configured,
                   call_main_person, suspended>>

(***************************************************************************)
(* Stage 4: _create_graph_entities.                                        *)
(***************************************************************************)
\* the report entry of a resolution as the resolver left it: an entity
\* created since is still reported as create_new, without id
ReportEntryAsResolved(r) ==
    [name |-> r.entity.name,
     id |-> IF r.action = "created" THEN NoId ELSE r.existing_id,
     action |-> IF r.action = "created" THEN "create_new" ELSE r.action]

ReportEntry(r) == [name |-> r.entity.name, id |-> r.existing_id, action |-> r.action]

\* the entries of one bucket, in the order of resolved_entities.items()
RECURSIVE Bucket(_, _)
Bucket(entity_type, i) ==
    IF i = 0 THEN <<>>
    ELSE IF resolved[keys[i]].entity.entity_type = entity_type
         THEN Append(Bucket(entity_type, i - 1), ReportEntry(resolved[keys[i]]))
         ELSE Bucket(entity_type, i - 1)

\* lines 649-693: the report of all entities
CommitEntities ==
    /\ pc = "committing"
    /\ UNCHANGED <<configured, looked_up, call_main_person, suspended>>
    /\ created_entities' =
          [people |-> Bucket("person", Len(keys)),
           companies |-> Bucket("company", Len(keys)),
           topics |-> Bucket("topic", Len(keys)),
           events |-> Bucket("event", Len(keys)),
           locations |-> Bucket("location", Len(keys)),
           relationships |-> <<>>]
    /\ cur' = 1
    /\ pc' = IF validated # <<>> THEN "linking" ELSE "returned"
    /\ UNCHANGED <<store, main_person_name, main_person_id, entities, relationships,
                   resolved, keys, pending, validated, calls, error, result, runs>>

\* the values of an edge property: an integer, a string, or null (no property)
IntValue(n) == [kind |-> "int", int |-> n, str |-> ""]
StrValue(s) == [kind |-> "str", int |-> 0, str |-> s]
Null == [kind |-> "null", int |-> 0, str |-> ""]

\* r.type and r.strength are the properties create_person_relationship SETs
Edge(type, from, to) ==
    [type |-> type, from |-> from, to |-> to, r_type |-> Null, r_strength |-> Null]

\* the label a link call MATCHes its second node by
TargetLabel(relationship_type) ==
    CASE relationship_type = "WORKS_AT" -> "Company"
      [] relationship_type = "KNOWS" -> "Person"
      [] relationship_type = "INTERESTED_IN" -> "Topic"
      [] relationship_type = "ATTENDED" -> "Event"

LinkTypes == {"WORKS_AT", "KNOWS", "INTERESTED_IN", "ATTENDED"}

\* link_person_to_company, link_person_to_topic, link_person_to_event:
\* MATCH both nodes by label and id, MERGE the edge
link(relationship_type, from_id, to_id) ==
    IF /\ \E n \in nodes : n.label = "Person" /\ n.id = from_id
       /\ \E n \in nodes : n.label = TargetLabel(relationship_type) /\ n.id = to_id
    THEN edges \cup {Edge(relationship_type, from_id, to_id)}
    ELSE edges

\* rel.get("strength", 3): the dict _validate_relationships builds always has
\* the key, with None for a mention without strength
get_strength(rel) ==
    IF "strength" \in DOMAIN rel
    THEN IF rel.strength = NoStrength THEN Null ELSE IntValue(rel.strength)
    ELSE IntValue(3)

\* rel.get("properties", {}).get("type", "acquaintance")
get_properties_type(rel) ==
    LET properties == IF "properties" \in DOMAIN rel THEN rel.properties ELSE NoProperties
    IN  IF \E item \in properties : item[1] = "type"
        THEN StrValue((CHOOSE item \in properties : item[1] = "type")[2])
        ELSE StrValue("acquaintance")

\* create_person_relationship(from_person_id, to_person_id, relationship_type,
\* strength): MATCH both people, MERGE the KNOWS edge, SET r.type and r.strength
create_person_relationship(from_person_id, to_person_id, relationship_type, strength) ==
    IF /\ \E n \in nodes : n.label = "Person" /\ n.id = from_person_id
       /\ \E n \in nodes : n.label = "Person" /\ n.id = to_person_id
    THEN {e \in edges : ~(e.type = "KNOWS" /\ e.from = from_person_id
                                           /\ e.to = to_person_id)}
         \cup {[Edge("KNOWS", from_person_id, to_person_id)
                   EXCEPT !.r_type = relationship_type, !.r_strength = strength]}
    ELSE edges

\* the call _create_graph_entities makes for a validated relationship of one
\* of the four types: for KNOWS the strength and the sub-type are handed over
\* in this order, as the third and the fourth argument
link_validated(rel) ==
    IF rel.relationship_type = "KNOWS"
    THEN create_person_relationship(rel.from_id, rel.to_id,
                                    get_strength(rel), get_properties_type(rel))
    ELSE link(rel.relationship_type, rel.from_id, rel.to_id)

SummaryEntry(rel) ==
    [from |-> rel.from_entity, to |-> rel.to_entity, type |-> rel.relationship_type,
     action |-> "created"]

\* _create_graph_entities with the try of line 697 around the loop instead of
\* inside it: a link call that raises ends the loop
CommitRelationshipStopping ==
    /\ pc = "linking"
    /\ UNCHANGED <<configured, looked_up, call_main_person, suspended>>
    /\ LET rel == validated[cur]
           label == TargetLabel(rel.relationship_type)
       IN  IF rel.relationship_type \in LinkTypes
           THEN \/ /\ edges' = link_validated(rel)
                   /\ calls' = Append(calls, Call("link", label, rel.to_entity, TRUE,
                                                  "linking", cur))
                   /\ created_entities' =
                         [created_entities EXCEPT
                            !.relationships = Append(@, SummaryEntry(rel))]
                   /\ cur' = IF cur < Len(validated) THEN cur + 1 ELSE 1
                   /\ pc' = IF cur < Len(validated) THEN "linking" ELSE "returned"
                \/ /\ calls' = Append(calls, Call("link", label, rel.to_entity, FALSE,
                                                  "linking", cur))
                   /\ cur' = 1
                   /\ pc' = "returned"
                   /\ UNCHANGED <<edges, created_entities>>
           ELSE /\ created_entities' =
                      [created_entities EXCEPT
                         !.relationships = Append(@, SummaryEntry(rel))]
                /\ cur' = IF cur < Len(validated) THEN cur + 1 ELSE 1
                /\ pc' = IF cur < Len(validated) THEN "linking" ELSE "returned"
                /\ UNCHANGED <<edges, calls>>
    /\ UNCHANGED <<nodes, next_id, main_person_name, main_person_id, entities,
                   relationships, resolved, keys, pending, validated, error, result, runs>>

\* _create_graph_entities with an else branch that skips (continue) a
\* relationship of a type it does not link: nothing is reported for it
CommitRelationshipSkippingUnknown ==
    /\ pc = "linking"
    /\ UNCHANGED <<configured, looked_up, call_main_person, suspended>>
    /\ LET rel == validated[cur]
           label == TargetLabel(rel.relationship_type)
       IN  IF rel.relationship_type \in LinkTypes
           THEN \/ /\ edges' = link_validated(rel)
                   /\ calls' = Append(calls, Call("link", label, rel.to_entity, TRUE,
                                                  "linking", cur))
                   /\ created_entities' =
                         [created_entities EXCEPT
                            !.relationships = Append(@, SummaryEntry(rel))]
                \/ /\ calls' = Append(calls, Call("link", label, rel.to_entity, FALSE,
                                                  "linking", cur))
                   /\ UNCHANGED <<edges, created_entities>>
           ELSE UNCHANGED <<edges, calls, created_entities>>
    /\ cur' = IF cur < Len(validated) THEN cur + 1 ELSE 1
    /\ pc' = IF cur < Len(validated) THEN "linking" ELSE "returned"
    /\ UNCHANGED <<nodes, next_id, main_person_name, main_person_id, entities,
                   relationships, resolved, keys, pending, validated, error, result, runs>>

\* lines 696-742, one validated relationship per step
CommitRelationship ==
    /\ pc = "linking"
    /\ UNCHANGED <<configured, looked_up, call_main_person, suspended>>
    /\ LET rel == validated[cur]
           label == TargetLabel(rel.relationship_type)
       IN  IF rel.relationship_type \in LinkTypes
           THEN \/ /\ edges' = link_validated(rel)
                   /\ calls' = Append(calls, Call("link", label, rel.to_entity, TRUE,
                                                  "linking", cur))
                   /\ created_entities' =
                         [created_entities EXCEPT
                            !.relationships = Append(@, SummaryEntry(rel))]
                \/ \* the link call raised: logged, next relationship
                   /\ calls' = Append(calls, Call("link", label, rel.to_entity, FALSE,
                                                  "linking", cur))
                   /\ UNCHANGED <<edges, created_entities>>
           ELSE /\ created_entities' =
                      [created_entities EXCEPT
                         !.relationships = Append(@, SummaryEntry(rel))]
                /\ UNCHANGED <<edges, calls>>
    /\ cur' = IF cur < Len(validated) THEN cur + 1 ELSE 1
    /\ pc' = IF cur < Len(validated) THEN "linking" ELSE "returned"
    /\ UNCHANGED <<nodes, next_id, main_person_name, main_person_id, entities,
                   relationships, resolved, keys, pending, validated, error, result, runs>>

\* the caller has the result (or the exception); the locals of the call are gone
Finish ==
    /\ pc \in {"returned", "raised"}
    /\ UNCHANGED <<configured, looked_up, call_main_person, suspended>>
    /\ pc' = "idle"
    /\ entities' = <<>>
    /\ relationships' = <<>>
    /\ resolved' = <<>>
    /\ keys' = <<>>
    /\ cur' = 0
    /\ pending' = {}
    /\ validated' = <<>>
    /\ created_entities' = NoSummary
    /\ result' = IF pc = "returned"
                 THEN Result(resolved, validated, created_entities, main_person_id)
                 ELSE NoResult
    /\ UNCHANGED <<store, main_person_name, main_person_id, calls, error, runs>>

(***************************************************************************)
(* One request over a seeded store, with every note.                       *)
(***************************************************************************)
Next ==
    \/ set_main_person
    \/ StartProcess(1)
    \/ ExtractionReturns(Notes)
    \/ ResolveEntity
    \/ DisambiguationReturns
    \/ PreMaterialize
    \/ ValidateRelationship
    \/ CommitEntities
    \/ CommitRelationship

Spec == Init /\ [][Next]_vars

(***************************************************************************)
(* Two requests one after the other, each with a note about Sarah.         *)
(***************************************************************************)
SarahNote ==
    [entities |-> {EntityMention(NameSarah, "person")},
     relationships |-> {RelationshipMention(NameAlice, NameSarah, "KNOWS", NoStrength)}]

NextSeq ==
    \/ set_main_person
    \/ StartProcess(2)
    \/ ExtractionReturns({SarahNote})
    \/ ResolveEntity
    \/ DisambiguationReturns
    \/ PreMaterialize
    \/ ValidateRelationship
    \/ CommitEntities
    \/ CommitRelationship
    \/ Finish

SpecSeq == Init /\ [][NextSeq]_vars

(***************************************************************************)
(* Two requests served by one event loop.  A coroutine gives up control    *)
(* only where it awaits a chain (extraction, disambiguation) or ends; the  *)
(* loop then resumes the other one.  The store and the processor instance  *)
(* (main person) are shared, the locals of process_note_advanced are not.  *)
(***************************************************************************)
\* the coroutine in control, as the event loop keeps it while it is suspended
Coroutine ==
    [pc |-> pc, entities |-> entities, relationships |-> relationships,
     resolved |-> resolved, keys |-> keys, cur |-> cur, pending |-> pending,
     validated |-> validated, created_entities |-> created_entities,
     calls |-> calls, error |-> error, looked_up |-> looked_up,
     call_main_person |-> call_main_person]

\* await self.extraction_chain.ainvoke / self.disambiguation_chain.ainvoke,
\* or the end of the call: the event loop runs the other request
Switch ==
    /\ pc \in {"extracting", "disambiguating", "returned", "raised"}
    /\ suspended.pc \in {"idle", "extracting", "disambiguating"}
    /\ suspended' = Coroutine
    /\ pc' = suspended.pc
    /\ entities' = suspended.entities
    /\ relationships' = suspended.relationships
    /\ resolved' = suspended.resolved
    /\ keys' = suspended.keys
    /\ cur' = suspended.cur
    /\ pending' = suspended.pending
    /\ validated' = suspended.validated
    /\ created_entities' = suspended.created_entities
    /\ calls' = suspended.calls
    /\ error' = suspended.error
    /\ looked_up' = suspended.looked_up
    /\ call_main_person' = suspended.call_main_person
    /\ UNCHANGED <<store, main_person_name, main_person_id, result, runs, configured>>

NextConc ==
    \/ set_main_person
    \/ StartProcess(2)
    \/ ExtractionReturns({SarahNote})
    \/ ResolveEntity
    \/ DisambiguationReturns
    \/ PreMaterialize
    \/ ValidateRelationship
    \/ CommitEntities
    \/ CommitRelationship
    \/ Switch

SpecConc == Init /\ [][NextConc]_vars

(***************************************************************************)
(* One request to /test-extraction: the router sets the main person, awaits *)
(* process_note_advanced and answers with the result less created_entities. *)
(***************************************************************************)
\* ai.py lines 153-160: test_result
TestResult(res, val, main_id) ==
    [resolved_entities |-> res, validated_relationships |-> val,
     main_person_id |-> main_id, test_mode |-> TRUE]

\* test_extraction once process_note_advanced has returned or raised
test_extraction_responds ==
    /\ pc \in {"returned", "raised"}
    /\ UNCHANGED <<configured, looked_up, call_main_person, suspended>>
    /\ pc' = "idle"
    /\ entities' = <<>>
    /\ relationships' = <<>>
    /\ resolved' = <<>>
    /\ keys' = <<>>
    /\ cur' = 0
    /\ pending' = {}
    /\ validated' = <<>>
    /\ created_entities' = NoSummary
    /\ result' = IF pc = "returned"
                 THEN TestResult(resolved, validated, main_person_id)
                 ELSE NoResult
    /\ UNCHANGED <<store, main_person_name, main_person_id, calls, error, runs>>

NextTest ==
    \/ set_main_person
    \/ StartProcess(1)
    \/ ExtractionReturns({SarahNote})
    \/ ResolveEntity
    \/ DisambiguationReturns
    \/ PreMaterialize
    \/ ValidateRelationship
    \/ CommitEntities
    \/ CommitRelationship
    \/ test_extraction_responds

SpecTest == Init /\ [][NextTest]_vars

(***************************************************************************)
(* One request to POST /process-note-advanced: the router checks the API   *)
(* key, sets the main person, awaits process_note_advanced and answers.    *)
(* The processor builds its chains from the same setting (line 94), so     *)
(* "configured" is also "settings.OPENAI_API_KEY is set".                  *)
(***************************************************************************)
HTTPResponse(status_code, data) == [status_code |-> status_code, data |-> data]

\* what the except clause of lines 84-88 makes of an exception raised in the
\* try block, an HTTPException included: status 500
except_Exception(raised_status) == 500

\* ai.py lines 55-60: no API key, HTTPException(503) is raised inside the try
router_rejects ==
    /\ pc = "idle"
    /\ runs < 1
    /\ ~configured
    /\ runs' = runs + 1
    /\ result' = HTTPResponse(except_Exception(503), NoResult)
    /\ UNCHANGED <<store, main_person_name, main_person_id, pc, locals, calls, error,
                   configured, looked_up, call_main_person, suspended>>

\* ai.py line 63
router_sets_main_person == configured /\ set_main_person

\* ai.py line 66, up to the first await of process_note_advanced
router_calls_processor == configured /\ StartProcess(1)

\* ai.py lines 68-88: the response once process_note_advanced is over
router_responds ==
    /\ pc \in {"returned", "raised"}
    /\ UNCHANGED <<configured, looked_up, call_main_person, suspended>>
    /\ pc' = "idle"
    /\ entities' = <<>>
    /\ relationships' = <<>>
    /\ resolved' = <<>>
    /\ keys' = <<>>
    /\ cur' = 0
    /\ pending' = {}
    /\ validated' = <<>>
    /\ created_entities' = NoSummary
    /\ result' = IF pc = "returned"
                 THEN HTTPResponse(200, Result(resolved, validated, created_entities,
                                               main_person_id))
                 ELSE HTTPResponse(except_Exception(0), NoResult)
    /\ UNCHANGED <<store, main_person_name, main_person_id, calls, error, runs>>

NextRouter ==
    \/ router_rejects
    \/ router_sets_main_person
    \/ router_calls_processor
    \/ ExtractionReturns({SarahNote})
    \/ ResolveEntity
    \/ DisambiguationReturns
    \/ PreMaterialize
    \/ ValidateRelationship
    \/ CommitEntities
    \/ CommitRelationship
    \/ router_responds

SpecRouter == Init /\ [][NextRouter]_vars

(***************************************************************************)
(* PUT /people/{person_id}: the router hands the body, a Person, to         *)
(* update_person as a dict; every key whose value is not None is SET.      *)
(***************************************************************************)
NodeIds == {n.id : n \in nodes}

\* the bodies of the request: Person.id (optional), .name, .email (optional)
PersonBodies ==
    [id : {NoId, SeedSarahK.id, BogusId},
     name : {NameAlice, NameSarah},
     email : {NoEmail, EmailSarahLee}]

\* SET p.key = $key for the keys of update_data
updated_person(n, body) ==
    [n EXCEPT !.name = body.name,
              !.email = IF body.email # NoEmail THEN body.email ELSE @,
              !.id = IF body.id # NoId THEN body.id ELSE @]

\* the response of the router: 404, or the person update_person returned
UpdateResponse(person_id, status, person) ==
    [person_id |-> person_id, status |-> status, person |-> person]

\* routers/people.py update_person over graph_service update_person
\* (nodes that agree in every property are one element of the set)
update_person ==
    /\ pc = "idle"
    /\ \E person_id \in NodeIds \cup {BogusId} :
         \E body \in PersonBodies :
            LET matched == {n \in nodes : n.label = "Person" /\ n.id = person_id}
                new_id == IF body.id # NoId THEN body.id ELSE person_id
            IN  /\ nodes' = (nodes \ matched) \cup {updated_person(n, body) : n \in matched}
                /\ edges' = IF matched = {} THEN edges
                            ELSE {[e EXCEPT !.from = IF @ = person_id THEN new_id ELSE @,
                                            !.to = IF e.type = "KNOWS" /\ @ = person_id
                                                   THEN new_id ELSE @] : e \in edges}
                /\ IF matched = {}
                   THEN result' = UpdateResponse(person_id, 404, Node(NoId, "Person", <<>>, NoEmail))
                   ELSE \E n \in matched :
                          result' = UpdateResponse(person_id, 200, updated_person(n, body))
    /\ UNCHANGED <<next_id, main_person_name, main_person_id, pc, locals, calls, error,
                   runs, configured, looked_up, call_main_person, suspended>>

NextPeople == update_person

SpecPeople == Init /\ [][NextPeople]_vars

(***************************************************************************)
(* Properties.                                                             *)
(***************************************************************************)
CallSet == {calls[i] : i \in DOMAIN calls}
ValidatedSet == {validated[i] : i \in DOMAIN validated}

\* the stages of a run after the resolution map is complete
AfterResolution == {"prematerializing", "validating", "committing", "linking", "returned"}

\* a store create for this name went through in the given stage
CreatedIn(name, stage) ==
    \E c \in CallSet : c.op = "create" /\ c.ok /\ c.name = name /\ c.stage = stage

Supported(name) ==
    name \in DOMAIN resolved /\ resolved[name].entity.entity_type \in EntityTypes

\* C1: when process_note returns, a relationship mention whose two endpoints
\* are in the resolution map with supported types and were both created by
\* the pre-materialization pass is in the validated list with the two new
\* ids, and for WORKS_AT between the created Person and the created Company
\* the store holds the edge.
C1_NewEndpointsLinked ==
    pc = "returned" =>
      \A k \in DOMAIN relationships :
        LET rel == relationships[k]
            from == rel.from_entity
            to == rel.to_entity
        IN  ( /\ Supported(from) /\ Supported(to)
              /\ CreatedIn(from, "prematerializing")
              /\ CreatedIn(to, "prematerializing") )
            => /\ ValidatedRelationship(rel, resolved[from].existing_id,
                                        resolved[to].existing_id) \in ValidatedSet
               /\ ( /\ rel.relationship_type = "WORKS_AT"
                    /\ resolved[from].entity.entity_type = "person"
                    /\ resolved[to].entity.entity_type = "company" )
                  => Edge("WORKS_AT", resolved[from].existing_id,
                          resolved[to].existing_id) \in edges

\* the Person nodes that carry the main person's name in some letter case
MainPersonNodes ==
    {n \in nodes : n.label = "Person" /\ Lower(n.name) = Lower(main_person_name)}

\* C2: a note that mentions the main person's name in any letter case never
\* leaves a second Person node for the main person, and the returned
\* resolved_entities[main_person_name] has action "use_existing".
C2_MainPersonNeverDuplicated ==
    /\ Cardinality(MainPersonNodes) <= 1
    /\ pc = "returned" => resolved[main_person_name].action = "use_existing"

\* C4: when process_note returns, both ids of every validated relationship
\* are ids of nodes in the store.
C4_ValidatedEndpointsExist ==
    pc = "returned" =>
      \A v \in ValidatedSet : v.from_id \in NodeIds /\ v.to_id \in NodeIds

\* C9: a malformed extraction or disambiguation response does not make
\* process_note raise: the run never ends in the exception of a fallback.
C9_MalformedResponseRecovered ==
    pc = "raised" =>
      error \notin {"_create_fallback_analysis", "_create_fallback_disambiguation"}

\* the positions in calls of the creates ensure-exists issued for a name
CreateCalls(name) ==
    {j \in DOMAIN calls : /\ calls[j].op = "create"
                          /\ calls[j].name = name
                          /\ calls[j].stage # "main"}

OneResolution(name) ==
    name \in DOMAIN resolved /\ Cardinality({j \in DOMAIN keys : keys[j] = name}) = 1

\* C3 as stated: every mentioned name has exactly one resolution, and over
\* the run at most one create call is issued to the store for it.
C3_AtMostOneCreateCall ==
    pc \in AfterResolution =>
      \A i \in DOMAIN entities :
        /\ OneResolution(entities[i].name)
        /\ Cardinality(CreateCalls(entities[i].name)) <= 1

\* C3 as amended: every mentioned name has exactly one resolution, at most
\* one create call for it goes through, and a create call for it is issued
\* again only when every earlier one raised.
C3_AtMostOneCreateSucceeds ==
    pc \in AfterResolution =>
      \A i \in DOMAIN entities :
        /\ OneResolution(entities[i].name)
        /\ \A j, k \in CreateCalls(entities[i].name) : j < k => ~calls[j].ok

\* two mentions of one name, a create for it that raised and one that went through
C3_Witness ==
    /\ pc = "returned"
    /\ \E i, j \in DOMAIN entities :
          /\ i < j
          /\ entities[i].name = entities[j].name
          /\ \E a, b \in CreateCalls(entities[i].name) : ~calls[a].ok /\ calls[b].ok

\* the mention names an entity that is no key of the resolution map
Dangling(rel) ==
    rel.from_entity \notin DOMAIN resolved \/ rel.to_entity \notin DOMAIN resolved

\* the validation loop has been through the k-th relationship mention
RelVisited(k) ==
    \/ pc = "validating" /\ k < cur
    \/ pc \in {"committing", "linking", "returned"}

\* the name is resolved to an entity the store finds by that name
Found(name) ==
    /\ name \in DOMAIN resolved
    /\ resolved[name].action = "use_existing"
    /\ resolved[name].existing_id # NoId
    /\ \E n \in nodes : /\ n.label = LabelOf(resolved[name].entity.entity_type)
                        /\ n.name = resolved[name].entity.name

Mentions(v, rel) ==
    /\ v.from_entity = rel.from_entity
    /\ v.to_entity = rel.to_entity
    /\ v.relationship_type = rel.relationship_type

\* C5: a relationship mention with an endpoint name that is no key of the
\* resolution map is never in the validated list, no store create or link is
\* made for it, and the mentions after it are still validated (those whose
\* endpoints the store finds are in the validated list).
C5_DanglingDropped ==
    pc \in {"validating", "committing", "linking", "returned"} =>
      \A k \in DOMAIN relationships :
        Dangling(relationships[k]) =>
          /\ \A v \in ValidatedSet :
                ~(/\ v.from_entity = relationships[k].from_entity
                  /\ v.to_entity = relationships[k].to_entity)
          /\ \A c \in CallSet :
                /\ ~(c.stage = "validating" /\ c.rel = k)
                /\ c.op = "link" =>
                     ~(/\ validated[c.rel].from_entity = relationships[k].from_entity
                       /\ validated[c.rel].to_entity = relationships[k].to_entity)
          /\ \A m \in DOMAIN relationships :
                ( /\ m > k
                  /\ RelVisited(m)
                  /\ Found(relationships[m].from_entity)
                  /\ Found(relationships[m].to_entity) )
                => \E v \in ValidatedSet : Mentions(v, relationships[m])

\* the first mention was dropped for a missing name, the second is validated
C5_Witness ==
    /\ pc = "returned"
    /\ Len(relationships) = 2
    /\ Dangling(relationships[1])
    /\ Len(validated) = 1
    /\ Mentions(validated[1], relationships[2])

\* the resolution says use_existing with an id, and the store finds no
\* entity of that type under the name
Stale(key) ==
    /\ resolved[key].action = "use_existing"
    /\ resolved[key].existing_id # NoId
    /\ ~\E n \in nodes : /\ n.label = LabelOf(resolved[key].entity.entity_type)
                         /\ n.name = resolved[key].entity.name

\* the step calls _ensure_entity_exists on the resolution of key, and the
\* by-name lookups of the step answer (none of them raises)
EnsureCalledOn(key) ==
    /\ pc = "validating"
    /\ ~Dangling(relationships[cur])
    /\ key \in {relationships[cur].from_entity, relationships[cur].to_entity}
    /\ pc' # "raised"

\* the step left a fresh node for the resolution of key, made the resolution
\* "created" with the node's id, and handed that id to the caller
Recreated(key) ==
    /\ resolved'[key].action = "created"
    /\ resolved'[key].existing_id \notin NodeIds
    /\ \E n \in nodes' : /\ n.id = resolved'[key].existing_id
                         /\ n.label = LabelOf(resolved[key].entity.entity_type)
                         /\ n.name = resolved[key].entity.name
    /\ validated' # validated =>
         /\ key = relationships[cur].from_entity =>
               validated'[Len(validated')].from_id = resolved'[key].existing_id
         /\ key = relationships[cur].to_entity =>
               validated'[Len(validated')].to_id = resolved'[key].existing_id

\* the store create the step issued for the resolution of key raised
CreateRaised(key) ==
    \E j \in (Len(calls) + 1)..Len(calls') :
      /\ calls'[j].op = "create"
      /\ calls'[j].name = resolved[key].entity.name
      /\ ~calls'[j].ok

\* C6 as stated: ensure_exists on a use_existing resolution whose entity does
\* not resolve by name creates a fresh entity, returns the new id and leaves
\* the resolution "created" with that id.
C6_StaleIsRecreated ==
    [][\A key \in DOMAIN resolved :
         (EnsureCalledOn(key) /\ Stale(key)) => Recreated(key)]_vars

\* C6 as amended: ... unless the store create raises; then the resolution is
\* left as it was and no id is returned (the relationship is not validated).
C6_StaleIsRecreatedUnlessCreateRaises ==
    [][\A key \in DOMAIN resolved :
         (EnsureCalledOn(key) /\ Stale(key)) =>
            IF CreateRaised(key)
            THEN resolved'[key] = resolved[key] /\ validated' = validated
            ELSE Recreated(key)]_vars

\* Sarah was resolved to the single search hit (confidence 0.8), was not found
\* by name during validation, and the relationship carries the id created then
C6_Witness ==
    /\ pc = "returned"
    /\ NameSarah \in DOMAIN resolved
    /\ resolved[NameSarah].confidence = 8
    /\ resolved[NameSarah].action = "created"
    /\ CreatedIn(NameSarah, "validating")
    /\ \E v \in ValidatedSet :
          v.to_entity = NameSarah /\ v.to_id = resolved[NameSarah].existing_id

\* the store as it was before the first run: ids below FirstFreshId
StoredBefore == {n \in nodes : n.id < FirstFreshId}

PersonsNamed(name) == {n \in nodes : n.label = "Person" /\ n.name = name}

\* both runs mentioned Sarah: the first one's returned map and the second
\* one's map hold her name
BothRunsMentionSarah ==
    /\ runs = 2
    /\ pc = "returned"
    /\ NameSarah \in DOMAIN result.resolved_entities
    /\ NameSarah \in DOMAIN resolved

\* the second run found Sarah by get_person_by_name (confidence 1.0) under
\* the id the first run returned, and the store holds one Person Sarah
SecondRunReuses ==
    /\ resolved[NameSarah].action = "use_existing"
    /\ resolved[NameSarah].confidence = 10
    /\ resolved[NameSarah].existing_id =
          result.resolved_entities[NameSarah].existing_id
    /\ Cardinality(PersonsNamed(NameSarah)) = 1

\* C7 as stated: two sequential runs mention Sarah and the store held no
\* Person named Sarah before; the first run ends with action "created", the
\* second resolves her by exact match to the id of the first, and the store
\* holds exactly one Person named Sarah.
C7_SecondRunFindsSarah ==
    (BothRunsMentionSarah /\ ~\E n \in StoredBefore :
                                 n.label = "Person" /\ n.name = NameSarah) =>
       /\ result.resolved_entities[NameSarah].action = "created"
       /\ SecondRunReuses

\* C7 as amended: with no stored person whose name or email contains "Sarah",
\* the first run ends with action "created" unless a store create for her
\* raised and none went through (then create_new, null id); and whenever the
\* first run ended with "created", the second run resolves Sarah by exact
\* match to that id and the store holds exactly one Person named Sarah.
C7_SecondRunFindsCreatedSarah ==
    /\ ( /\ runs = 1
         /\ pc = "returned"
         /\ NameSarah \in DOMAIN resolved
         /\ ~\E n \in StoredBefore :
               /\ n.label = "Person"
               /\ Contains(n.name, NameSarah) \/ Contains(n.email, NameSarah) ) =>
          \/ /\ resolved[NameSarah].action = "created"
             /\ PersonsNamed(NameSarah) =
                  {Node(resolved[NameSarah].existing_id, "Person", NameSarah, NoEmail)}
          \/ /\ resolved[NameSarah] =
                  Resolution("create_new", EntityMention(NameSarah, "person"), NoId, 9)
             /\ \E c \in CallSet : c.op = "create" /\ c.name = NameSarah /\ ~c.ok
             /\ ~\E c \in CallSet : c.op = "create" /\ c.name = NameSarah /\ c.ok
    /\ ( /\ BothRunsMentionSarah
         /\ result.resolved_entities[NameSarah].action = "created" ) =>
          SecondRunReuses

\* the first run created Sarah in a store that held nobody like her, the
\* second run has returned with her resolved to that id
C7_Witness ==
    /\ BothRunsMentionSarah
    /\ StoredBefore = {SeedAlice}
    /\ result.resolved_entities[NameSarah].action = "created"
    /\ resolved[NameSarah].action = "use_existing"
    /\ resolved[NameSarah].existing_id = result.resolved_entities[NameSarah].existing_id
    /\ \E v \in ValidatedSet : v.to_id = resolved[NameSarah].existing_id

Unsupported(name) ==
    name \in DOMAIN resolved /\ resolved[name].entity.entity_type \notin EntityTypes

\* the step about to be taken handles a mention or a resolution of an
\* unsupported type: resolving it, pre-materializing it, or validating a
\* relationship one of whose endpoints it is
HandlesUnsupported ==
    \/ pc = "resolving" /\ entities[cur].entity_type \notin EntityTypes
    \/ pc = "prematerializing" /\ Unsupported(keys[cur])
    \/ /\ pc = "validating"
       /\ ~Dangling(relationships[cur])
       /\ Unsupported(relationships[cur].from_entity)
            \/ Unsupported(relationships[cur].to_entity)

\* C8: a resolution whose entity type is none of person, company, topic,
\* event, location has action create_new and a null existing_id at every
\* point of the run up to its return, no store create call carries its name,
\* no validated relationship names it, and no step that handles it raises,
\* but for the by-name lookup of the relationship's other endpoint raising.
C8_UnsupportedTypeSkipped ==
    /\ [](\A name \in DOMAIN resolved :
            Unsupported(name) =>
              /\ resolved[name].action = "create_new"
              /\ resolved[name].existing_id = NoId
              /\ ~\E c \in CallSet : c.op = "create" /\ c.name = name
              /\ ~\E v \in ValidatedSet : v.from_entity = name \/ v.to_entity = name
              /\ ~\E n \in nodes : n.name = name /\ n.id >= FirstFreshId)
    /\ [][HandlesUnsupported =>
            \/ pc' # "raised" /\ error' = "none"
            \/ /\ pc = "validating"
               /\ error' = "lookup_verify"
               /\ \E name \in {relationships[cur].from_entity,
                                relationships[cur].to_entity} :
                     verifies(resolved[name])]_vars

\* the run returned; the map holds the vehicle "Car", and a relationship
\* between Sarah and Car reached the two ensure_exists calls
C8_Witness ==
    /\ pc = "returned"
    /\ Unsupported(NameCar)
    /\ \E i \in DOMAIN relationships :
          /\ relationships[i].to_entity = NameCar
          /\ ~Dangling(relationships[i])
    /\ ValidatedSet # {}

\* a store create issued by _ensure_entity_exists (pre-materialization or
\* validation) that raised
FailedEnsure(c) ==
    c.op = "create" /\ ~c.ok /\ c.stage \in {"prematerializing", "validating"}

\* the calls the step adds to the log
NewCalls == {calls'[j] : j \in (Len(calls) + 1)..Len(calls')}

\* the loop the step belongs to goes on with its next item, or hands over to
\* the stage that follows
LoopGoesOn ==
    /\ pc = "prematerializing" =>
          /\ cur < Len(keys) => (pc' = "prematerializing" /\ cur' = cur + 1)
          /\ cur = Len(keys) => pc' \in {"validating", "committing"}
    /\ pc = "validating" =>
          /\ cur < Len(relationships) => (pc' = "validating" /\ cur' = cur + 1)
          /\ cur = Len(relationships) => pc' = "committing"

\* C10 as stated: once a store create raised inside ensure_exists, the run
\* does not raise because of it (it raises only if a by-name lookup does), and
\* every relationship referencing that entity is absent from the validated
\* list.
C10_FailedCreateDropsAllItsRelationships ==
    \A c \in CallSet :
       FailedEnsure(c) =>
          /\ pc = "raised" => error = "lookup_verify"
          /\ ~\E v \in ValidatedSet : v.from_entity = c.name \/ v.to_entity = c.name

\* C10 as amended: the step in which a store create raises inside
\* ensure_exists does not raise (unless the by-name lookup of the other
\* endpoint does), leaves the resolution as it was, does not
\* add the relationship being validated to the validated list, and the loop
\* goes on; a relationship referencing the entity is validated only by a
\* later ensure_exists whose create went through, and carries that id.
C10_FailedCreateDropsTheRelationship ==
    /\ [][\A c \in NewCalls :
            FailedEnsure(c) =>
               /\ pc' = "raised" => error' = "lookup_verify"
               /\ pc' # "raised" => (error' = "none" /\ LoopGoesOn)
               /\ resolved'[c.name] = resolved[c.name]
               /\ validated' = validated
               /\ nodes' \ nodes \subseteq {n \in nodes' : n.name # c.name}]_vars
    /\ [](\A i \in DOMAIN calls :
            FailedEnsure(calls[i]) =>
               /\ pc = "raised" => error = "lookup_verify"
               /\ \A v \in ValidatedSet :
                    \A side \in {"from", "to"} :
                      LET name == IF side = "from" THEN v.from_entity ELSE v.to_entity
                          id == IF side = "from" THEN v.from_id ELSE v.to_id
                      IN  name = calls[i].name =>
                            \E j \in DOMAIN calls :
                               /\ j > i
                               /\ calls[j] = Call("create", calls[i].label, name, TRUE,
                                                  "validating", calls[j].rel)
                               /\ resolved[name].action = "created"
                               /\ resolved[name].existing_id = id)

\* a create for Sarah raised in the pre-materialization pass, the run went on
\* and returned, and the relationship with Sarah was validated by the retry
C10_Witness ==
    /\ pc = "returned"
    /\ \E c \in CallSet :
          /\ FailedEnsure(c)
          /\ c.name = NameSarah
          /\ c.stage = "prematerializing"
    /\ \E v \in ValidatedSet : v.to_entity = NameSarah
    /\ \E c \in CallSet : FailedEnsure(c) /\ c.name = NameGoogle
    /\ ~\E v \in ValidatedSet : v.to_entity = NameGoogle

\* the link calls of the commit stage, and the relationships whose call raised
LinkCalls == {c \in CallSet : c.op = "link"}
FailedLinks == {c.rel : c \in {d \in LinkCalls : ~d.ok}}

\* the link calls were issued in the order of the validated list
LinksInInputOrder ==
    \A i, j \in DOMAIN calls :
       (calls[i].op = "link" /\ calls[j].op = "link" /\ i < j) =>
          calls[i].rel < calls[j].rel

\* the summary entries of the first i validated relationships, the failed
\* ones left out
RECURSIVE SummaryWithoutFailed(_)
SummaryWithoutFailed(i) ==
    IF i = 0 THEN <<>>
    ELSE IF i \in FailedLinks
         THEN SummaryWithoutFailed(i - 1)
         ELSE Append(SummaryWithoutFailed(i - 1), SummaryEntry(validated[i]))

\* C11 as stated: when the run returns after a link call raised, the run did
\* not raise, every later validated relationship had its link call, in input
\* order, and the summary lists every validated relationship but the failed.
C11_LaterRelationshipsAllLinked ==
    (pc = "returned" /\ FailedLinks # {}) =>
       /\ error = "none"
       /\ \A i \in FailedLinks :
            \A j \in DOMAIN validated :
               j > i => \E c \in LinkCalls : c.rel = j
       /\ LinksInInputOrder
       /\ created_entities.relationships = SummaryWithoutFailed(Len(validated))

\* C11 as amended: ... every later validated relationship whose type is one
\* of WORKS_AT, KNOWS, INTERESTED_IN, ATTENDED had its link call, in input
\* order; a relationship of another type has no link call at all; the summary
\* lists every validated relationship but the failed ones.
C11_LaterLinkableRelationshipsLinked ==
    (pc = "returned" /\ FailedLinks # {}) =>
       /\ error = "none"
       /\ \A j \in DOMAIN validated :
            (\E c \in LinkCalls : c.rel = j) <=>
               validated[j].relationship_type \in LinkTypes
       /\ LinksInInputOrder
       /\ created_entities.relationships = SummaryWithoutFailed(Len(validated))

\* the link call of the first validated relationship raised, the second one
\* was linked, and the summary holds the second alone
C11_Witness ==
    /\ pc = "returned"
    /\ Len(validated) = 2
    /\ FailedLinks = {1}
    /\ \E c \in LinkCalls : c.rel = 2 /\ c.ok
    /\ created_entities.relationships = <<SummaryEntry(validated[2])>>
    /\ \E e \in edges : e.from = validated[2].from_id /\ e.to = validated[2].to_id

\* C12 as stated: process_note_advanced raises only when the extraction
\* chain is not configured.
C12_RaisesOnlyWhenNotConfigured ==
    pc = "raised" => (~configured /\ error = "not_configured")

\* C13: with no extraction chain, the call raises at once: the step leaves the
\* store and the processor's main person as they were and issues no lookup,
\* create or link; nothing else of the run ever happens.
C13_NotConfiguredTouchesNothing ==
    /\ [][(pc = "idle" /\ ~configured /\ runs' # runs) =>
            /\ pc' = "raised"
            /\ error' = "not_configured"
            /\ looked_up' = FALSE
            /\ calls' = <<>>
            /\ UNCHANGED <<nodes, edges, next_id, main_person_name, main_person_id>>]_vars
    /\ [](~configured =>
            /\ pc \in {"idle", "raised"}
            /\ ~looked_up
            /\ calls = <<>>
            /\ edges = {}
            /\ \A n \in nodes : n.id < FirstFreshId)

\* the call has raised for want of an extraction chain, over an empty store
\* and a main person without id (whom a configured run looks up and creates)
C13_Witness ==
    /\ pc = "raised"
    /\ error = "not_configured"
    /\ runs = 1
    /\ nodes = {}
    /\ main_person_id = NoId

\* C14: a store lookup that raises while an entity is resolved ends the run
\* there and then: the step leaves the resolution map and the store as they
\* were (no create_new entry, no node), nothing is validated or created
\* afterwards, and the only step left hands the exception to the caller.
C14_LookupErrorEndsRun ==
    /\ [][(error' = "lookup_resolve" /\ error # "lookup_resolve") =>
            /\ pc = "resolving"
            /\ looks_up(entities[cur])
            /\ pc' = "raised"
            /\ UNCHANGED <<resolved, keys, nodes, edges, next_id, calls, validated>>]_vars
    /\ [](error = "lookup_resolve" =>
            /\ pc \in {"raised", "idle"}
            /\ validated = <<>>
            /\ ~\E c \in CallSet : c.stage # "main")
    /\ [][pc = "raised" => (pc' = "idle" /\ UNCHANGED <<nodes, edges, next_id>>)]_vars

\* the lookup for Sarah raised over a store without her: she has no entry in
\* the map and no node
C14_Witness ==
    /\ pc = "raised"
    /\ error = "lookup_resolve"
    /\ entities[cur] = EntityMention(NameSarah, "person")
    /\ NameSarah \notin DOMAIN resolved
    /\ ~\E n \in nodes : Contains(n.name, NameSarah)

\* C15 as stated: from its seeding until the resolution stage is over, the
\* entry under the main person's name is (person, use_existing, main person
\* id, confidence 1.0), whatever entities are resolved in between.
C15_MainEntryNeverReplaced ==
    pc \in {"resolving", "disambiguating", "prematerializing"} =>
       /\ main_person_name \in DOMAIN resolved
       /\ resolved[main_person_name] =
             Resolution("use_existing", EntityMention(main_person_name, "person"),
                        main_person_id, 10)

\* C16 as stated: a request to /test-extraction leaves the graph store with
\* the nodes and edges it had before.
C16_TestExtractionLeavesStore ==
    /\ edges = {}
    /\ \A n \in nodes : n.id < FirstFreshId

\* the nodes of one label and name created since the requests began
FreshNamed(label, name) ==
    {n \in nodes : n.id >= FirstFreshId /\ n.label = label /\ n.name = name}

\* the store creates of one label and name that went through in a call log
Creates(cs, label, name) ==
    {i \in DOMAIN cs : /\ cs[i].op = "create" /\ cs[i].ok
                       /\ cs[i].label = label /\ cs[i].name = name}

\* those among them that _ensure_entity_exists issued for a resolution
EnsureCreates(cs, label, name) ==
    {i \in Creates(cs, label, name) : cs[i].stage # "main"}

\* C17: nothing keeps two requests from creating the same entity: every node
\* created is a create of one of the two requests, and a request creates the
\* entity of a resolution at most once, so that an extracted name has two new
\* nodes exactly when each request created it (each having resolved it as
\* new before the other's node was in the store).
C17_EachRequestCreatesOnce ==
    \A label \in Labels :
       \A name \in {n.name : n \in nodes} :
          /\ Cardinality(EnsureCreates(calls, label, name)) <= 1
          /\ Cardinality(EnsureCreates(suspended.calls, label, name)) <= 1
          /\ Cardinality(FreshNamed(label, name)) =
                Cardinality(Creates(calls, label, name))
                + Cardinality(Creates(suspended.calls, label, name))

\* both requests have returned; each resolved Sarah as new and created her:
\* the store holds two Person nodes named Sarah
C17_Witness ==
    /\ pc = "returned"
    /\ suspended.pc = "returned"
    /\ Cardinality(FreshNamed("Person", NameSarah)) = 2
    /\ resolved[NameSarah].action = "created"
    /\ suspended.resolved[NameSarah].action = "created"
    /\ resolved[NameSarah].existing_id # suspended.resolved[NameSarah].existing_id
    /\ \A c \in CallSet : c.ok

\* C18 as stated: the person a PUT /people/{person_id} returns, and stores,
\* has the id of the path.
C18_UpdateKeepsId ==
    ("status" \in DOMAIN result /\ result.status = 200) =>
       /\ result.person \in nodes
       /\ result.person.id = result.person_id

\* the ids _ensure_entity_exists is known to have returned so far for the
\* resolution of a name: those the validated list carries, and the id of a
\* create that went through
ReturnedIds(name) ==
    {v.from_id : v \in {w \in ValidatedSet : w.from_entity = name}}
    \cup {v.to_id : v \in {w \in ValidatedSet : w.to_entity = name}}
    \cup {resolved[name].existing_id : c \in {d \in CallSet :
              /\ d.op = "create" /\ d.ok /\ d.name = name
              /\ d.stage \in {"prematerializing", "validating"}
              /\ resolved[name].action = "created"}}

\* C19 as stated: once ensure_exists has returned an id for each endpoint of
\* a relationship, the two calls made for that relationship return those ids
\* again (the relationship is validated with them) and issue no create.
C19_EnsureExistsIdempotent ==
    [][( /\ pc = "validating"
         /\ pc' # "raised"
         /\ ~Dangling(relationships[cur])
         /\ ReturnedIds(relationships[cur].from_entity) # {}
         /\ ReturnedIds(relationships[cur].to_entity) # {} ) =>
          /\ calls' = calls
          /\ \E f \in ReturnedIds(relationships[cur].from_entity) :
               \E t \in ReturnedIds(relationships[cur].to_entity) :
                  validated' = Append(validated,
                                      ValidatedRelationship(relationships[cur], f, t))]_vars

\* C20 as stated: every link call of a run has both its endpoint ids among
\* the nodes of the store, and no create call follows a link call.
C20_LinkAfterEndpointsExist ==
    \A i \in DOMAIN calls :
       calls[i].op = "link" =>
          /\ validated[calls[i].rel].from_id \in NodeIds
          /\ validated[calls[i].rel].to_id \in NodeIds
          /\ \A j \in DOMAIN calls : j > i => calls[j].op # "create"

\* a person mention whose name is not the main person's in any letter case
NotMainPerson(entity) ==
    entity.entity_type = "person" /\ Lower(entity.name) # Lower(main_person_name)

\* C21: a step that resolves a person mention other than the main person
\* yields use_existing/1.0 with the matched id on an exact name hit, else
\* create_new/0.9 with a null id when the search finds nobody, else
\* use_existing/0.8 with the id of the sole candidate, and goes to the
\* disambiguation chain, once, exactly when the search finds two or more;
\* a company, topic, event or location mention never goes there and yields
\* use_existing/1.0 on an exact hit, create_new/0.9 otherwise, whatever the
\* people search would find.
C21_ResolverDecisionTable ==
    /\ [][(pc = "resolving" /\ pc' # "raised") =>
            LET entity == entities[cur]
                exact == get_by_name(LabelOf(entity.entity_type), entity.name)
                hits == search_people(entity.name)
            IN  /\ NotMainPerson(entity) =>
                     /\ pc' = "disambiguating" <=> (exact = {} /\ Cardinality(hits) >= 2)
                     /\ pc' = "disambiguating" =>
                           (pending' = hits /\ UNCHANGED <<resolved, keys, cur>>)
                     /\ exact # {} =>
                           \E n \in exact :
                              resolved'[entity.name] =
                                 Resolution("use_existing", entity, n.id, 10)
                     /\ (exact = {} /\ hits = {}) =>
                           resolved'[entity.name] =
                              Resolution("create_new", entity, NoId, 9)
                     /\ (exact = {} /\ Cardinality(hits) = 1) =>
                           \E p \in hits :
                              resolved'[entity.name] =
                                 Resolution("use_existing", entity, p.id, 8)
                /\ entity.entity_type \in EntityTypes \ {"person"} =>
                     /\ pc' # "disambiguating"
                     /\ pending' = pending
                     /\ exact # {} =>
                           \E n \in exact :
                              resolved'[entity.name] =
                                 Resolution("use_existing", entity, n.id, 10)
                     /\ exact = {} =>
                           resolved'[entity.name] =
                              Resolution("create_new", entity, NoId, 9)]_vars
    /\ [][pc = "disambiguating" =>
            (pc' # "disambiguating" /\ pending' = {})]_vars

\* the map is complete: Sarah went to the only person the search found
\* (Sarah K, 0.8), the company Google, unknown to the store, is to be created
C21_Witness ==
    /\ pc = "prematerializing"
    /\ cur = 1
    /\ NameSarah \in DOMAIN resolved
    /\ NameGoogle \in DOMAIN resolved
    /\ resolved[NameSarah] =
          Resolution("use_existing", EntityMention(NameSarah, "person"), SeedSarahK.id, 8)
    /\ resolved[NameGoogle] =
          Resolution("create_new", EntityMention(NameGoogle, "company"), NoId, 9)

\* the step is the start of a process_note call
StartsCall == pc = "idle" /\ runs' = runs + 1

\* the create calls of _ensure_main_person_exists in the log the step starts
NewMainCreates ==
    {j \in DOMAIN calls' : calls'[j].op = "create" /\ calls'[j].stage = "main"}

\* C22: a call that starts with no main-person id takes the id of the exact
\* name match if there is one, else the id and the name of the first search
\* hit, and creates a Person only when both find nothing; a call that starts
\* with the id set issues no lookup and no create for the main person and
\* leaves name and id alone; the id, once set, changes only by
\* set_main_person; so the main-person setup creates at most one node.
C22_MainPersonResolvedOnce ==
    /\ [][(StartsCall /\ configured /\ main_person_id = NoId /\ pc' # "raised") =>
            LET exact == get_person_by_name(main_person_name)
                hits == search_people(main_person_name)
            IN  /\ looked_up'
                /\ exact # {} =>
                      /\ main_person_id' \in {n.id : n \in exact}
                      /\ UNCHANGED <<nodes, main_person_name>>
                      /\ NewMainCreates = {}
                /\ (exact = {} /\ hits # {}) =>
                      /\ \E p \in search_first(main_person_name) :
                            main_person_id' = p.id /\ main_person_name' = p.name
                      /\ UNCHANGED nodes
                      /\ NewMainCreates = {}
                /\ (exact = {} /\ hits = {}) =>
                      /\ nodes' = nodes \cup {Node(main_person_id', "Person",
                                                   main_person_name, NoEmail)}
                      /\ main_person_id' \notin NodeIds
                      /\ UNCHANGED main_person_name
                      /\ Cardinality(NewMainCreates) = 1]_vars
    /\ [][(StartsCall /\ main_person_id # NoId) =>
            /\ ~looked_up'
            /\ calls' = <<>>
            /\ UNCHANGED <<nodes, next_id, main_person_name, main_person_id>>]_vars
    /\ [][(main_person_id # NoId /\ ~(pc = "idle" /\ runs' = runs)) =>
            UNCHANGED <<main_person_name, main_person_id>>]_vars
    /\ [](Cardinality({n \in nodes : /\ n.id >= FirstFreshId
                                      /\ n.label = "Person"
                                      /\ n.name = main_person_name}) <= 1)

\* the first call created the main person over an empty store; the second
\* call has started with that id, without a lookup, and the store holds the
\* one node
C22_Witness ==
    /\ runs = 2
    /\ pc = "extracting"
    /\ ~looked_up
    /\ calls = <<>>
    /\ main_person_id >= FirstFreshId
    /\ PersonsNamed(main_person_name) =
          {Node(main_person_id, "Person", main_person_name, NoEmail)}
    /\ result.main_person_id = main_person_id

\* the step commits a validated KNOWS relationship: the link call goes
\* through and finds both people
CommitsKnows ==
    /\ pc = "linking"
    /\ validated[cur].relationship_type = "KNOWS"
    /\ \E c \in NewCalls : c.op = "link" /\ c.ok
    /\ \E n \in nodes : n.label = "Person" /\ n.id = validated[cur].from_id
    /\ \E n \in nodes : n.label = "Person" /\ n.id = validated[cur].to_id

\* the KNOWS edge between the endpoints of a validated relationship
KnowsEdges(es, rel) ==
    {e \in es : e.type = "KNOWS" /\ e.from = rel.from_id /\ e.to = rel.to_id}

\* C23 as stated: a committed KNOWS relationship is stored as one edge whose
\* strength is the mention's strength, 3 when the mention has none, and whose
\* sub-type is "acquaintance" when the mention has no "type" property.
C23_KnowsStoresStrength ==
    [][CommitsKnows =>
         LET rel == validated[cur]
         IN  /\ Cardinality(KnowsEdges(edges', rel)) = 1
             /\ \A e \in KnowsEdges(edges', rel) :
                   /\ e.r_strength = IF rel.strength = NoStrength
                                     THEN IntValue(3)
                                     ELSE IntValue(rel.strength)
                   /\ rel.properties = NoProperties =>
                         e.r_type = StrValue("acquaintance")]_vars

\* C24: the commit of a validated relationship whose type is none of
\* WORKS_AT, KNOWS, INTERESTED_IN, ATTENDED issues no store call and leaves
\* nodes and edges as they were, does not raise, and appends the
\* relationship to the relationships summary with action "created".
C24_UnknownTypeReportedNotStored ==
    [][(pc = "linking" /\ validated[cur].relationship_type \notin LinkTypes) =>
          /\ UNCHANGED <<nodes, edges, next_id, calls, error>>
          /\ pc' # "raised"
          /\ created_entities' =
                [created_entities EXCEPT
                   !.relationships = Append(@, SummaryEntry(validated[cur]))]]_vars

\* the run returned with the MENTORS relationship validated and reported,
\* and no edge in the store
C24_Witness ==
    /\ pc = "returned"
    /\ Len(validated) = 1
    /\ validated[1].relationship_type = "MENTORS"
    /\ created_entities.relationships =
          <<[from |-> NameAlice, to |-> NameSarah, type |-> "MENTORS",
             action |-> "created"]>>
    /\ edges = {}

\* the bucket of created_entities an entity type is reported in
BucketOf(entity_type) ==
    CASE entity_type = "person" -> "people"
      [] entity_type = "company" -> "companies"
      [] entity_type = "topic" -> "topics"
      [] entity_type = "event" -> "events"
      [] entity_type = "location" -> "locations"
      [] OTHER -> "none"

EntityBuckets == {"people", "companies", "topics", "events", "locations"}

\* where the summary holds an entry under a name: (bucket, position)
EntriesNamed(name) ==
    {bi \in UNION {{<<b, i>> : i \in DOMAIN created_entities[b]} : b \in EntityBuckets} :
        created_entities[bi[1]][bi[2]].name = name}

\* the summary holds one entry under the key, in the bucket of the
\* resolution's type, with the resolution's action and existing_id
ReportedOnce(key) ==
    /\ Cardinality(EntriesNamed(key)) = 1
    /\ \A bi \in EntriesNamed(key) :
          /\ bi[1] = BucketOf(resolved[key].entity.entity_type)
          /\ created_entities[bi[1]][bi[2]] =
                [name |-> key, id |-> resolved[key].existing_id,
                 action |-> resolved[key].action]

\* C25 as stated: once commit has built the entity report, it holds exactly
\* one entry for every resolution of the map, in the bucket of its type,
\* with the final action and existing_id.
C25_EveryResolutionReported ==
    pc \in {"linking", "returned"} =>
       \A key \in DOMAIN resolved : ReportedOnce(key)

\* C25 as amended: ... exactly one entry for every resolution whose entity
\* type is person, company, topic, event or location, and no entry for a
\* resolution of any other type.
C25_EverySupportedResolutionReported ==
    pc \in {"linking", "returned"} =>
       /\ \A key \in DOMAIN resolved :
             IF resolved[key].entity.entity_type \in EntityTypes
             THEN ReportedOnce(key)
             ELSE EntriesNamed(key) = {}
       /\ \A b \in EntityBuckets :
             \A i \in DOMAIN created_entities[b] :
                created_entities[b][i].name \in DOMAIN resolved

\* the run returned: Sarah, created by the run, is reported with her new id
\* among the people, the vehicle Car is in the map and in no bucket
C25_Witness ==
    /\ pc = "returned"
    /\ Unsupported(NameCar)
    /\ EntriesNamed(NameCar) = {}
    /\ NameSarah \in DOMAIN resolved
    /\ resolved[NameSarah].action = "created"
    /\ \E i \in DOMAIN created_entities.people :
          created_entities.people[i] =
             [name |-> NameSarah, id |-> resolved[NameSarah].existing_id,
              action |-> "created"]

\* C26 as stated: without an API key the request is answered with status
\* 503, and no method of the note processor is called (its main person is
\* as constructed, no run has started, no store call was made).
C26_NotConfiguredAnswers503 ==
    (~configured /\ runs = 1) =>
       /\ result.status_code = 503
       /\ pc = "idle"
       /\ main_person_name = NameAlice
       /\ main_person_id = NoId
       /\ ~looked_up
       /\ calls = <<>>

\* C27 as stated: at every stage a request runs after an await, and when it
\* returns, the processor's main-person name and id are those the request
\* set up before it was suspended, whatever the other request did meanwhile;
\* the main_person_id it returns (read at line 276) is its own.
C27_RequestKeepsItsMainPerson ==
    pc \in {"resolving", "prematerializing", "validating", "committing",
            "linking", "returned"} =>
       /\ main_person_name = call_main_person[1]
       /\ main_person_id = call_main_person[2]

\* the resolver mapped the person mention to a candidate of the search: the
\* only one (0.8) or the one the disambiguation chose with use_existing
FuzzyMatched(key) ==
    /\ resolved[key].entity.entity_type = "person"
    /\ resolved[key].action = "use_existing"
    /\ resolved[key].confidence \in {8, DisambiguationConfidence}
    /\ resolved[key].existing_id \in {p.id : p \in search_people(key)}

\* C28 as stated: when a relationship referencing a mention that was mapped
\* to a search candidate is validated, no Person is created for the mention,
\* its resolution stays as it is, and the validated relationship carries the
\* candidate's id on that side.
C28_FuzzyMatchIsReused ==
    [][\A key \in DOMAIN resolved :
         (EnsureCalledOn(key) /\ FuzzyMatched(key)) =>
            /\ ~\E c \in NewCalls : c.op = "create" /\ c.name = key
            /\ resolved'[key] = resolved[key]
            /\ validated' # validated =>
                  /\ key = relationships[cur].from_entity =>
                        validated'[Len(validated')].from_id = resolved[key].existing_id
                  /\ key = relationships[cur].to_entity =>
                        validated'[Len(validated')].to_id = resolved[key].existing_id]_vars

StoresResolution(key) ==
    /\ pc \in {"resolving", "disambiguating"}
    /\ key = entities[cur].name
    /\ resolved'[key].entity = entities[cur]

\* the step issues a store create for the entity of the resolution, and the
\* create goes through
CreateSucceeds(key) ==
    \E c \in NewCalls :
       /\ c.op = "create" /\ c.ok /\ c.name = key /\ c.stage # "main"
       /\ c.label = LabelOf(resolved[key].entity.entity_type)

\* the resolution moves from create_new or use_existing to created, with the
\* id of a node the step adds to the store
MovesToCreated(key) ==
    /\ resolved[key].action \in {"create_new", "use_existing"}
    /\ resolved'[key] = [resolved[key] EXCEPT !.action = "created",
                                              !.existing_id = resolved'[key].existing_id]
    /\ resolved'[key].existing_id \notin NodeIds
    /\ Node(resolved'[key].existing_id, LabelOf(resolved[key].entity.entity_type),
            key, NoEmail) \in nodes'

\* C30: a resolution, once a resolver has stored it, changes only by the
\* move from create_new or use_existing to created, taken exactly when a
\* store create for its entity goes through; a resolution with action
\* "created" has a non-null existing_id that names a node created in this
\* run, and never changes again.
C30_ResolutionLifecycle ==
    /\ [][\A key \in DOMAIN resolved \cap DOMAIN resolved' :
            /\ CreateSucceeds(key) <=> MovesToCreated(key)
            /\ resolved'[key] # resolved[key] =>
                  (MovesToCreated(key) \/ StoresResolution(key))
            /\ resolved[key].action = "created" => resolved'[key] = resolved[key]]_vars
    /\ [](\A key \in DOMAIN resolved :
            resolved[key].action = "created" =>
               /\ resolved[key].existing_id # NoId
               /\ resolved[key].existing_id >= FirstFreshId
               /\ Node(resolved[key].existing_id,
                       LabelOf(resolved[key].entity.entity_type), key, NoEmail) \in nodes
               /\ \E c \in CallSet : c.op = "create" /\ c.ok /\ c.name = key)

\* the run returned: Google was resolved create_new and created by the
\* pre-materialization pass, Sarah was resolved use_existing (the search hit
\* Sarah K) and created during validation
C30_Witness ==
    /\ pc = "returned"
    /\ NameSarah \in DOMAIN resolved
    /\ NameGoogle \in DOMAIN resolved
    /\ resolved[NameSarah].action = "created"
    /\ resolved[NameSarah].confidence = 8
    /\ CreatedIn(NameSarah, "validating")
    /\ resolved[NameGoogle].action = "created"
    /\ CreatedIn(NameGoogle, "prematerializing")

====
